---- MODULE Spec2Model ----
(***************************************************************************)
(* Model of the RAG service: the ingestion pipeline (app/ingestion.py),    *)
(* the hybrid retriever (app/retriever.py) and the /ingest trigger         *)
(* (app/api.py), against an Elasticsearch collection.                      *)
(*                                                                         *)
(* The collection is the only shared state.  Every call into a library or  *)
(* the storage backend that can raise is given both outcomes.              *)
(***************************************************************************)
EXTENDS Integers, Sequences, FiniteSets, TLC

(* ------------------------------ bounds -------------------------------- *)

\* number of *.pdf files in the local data directory
MaxLocalFiles == 2
\* number of documents the Drive folder can hold
MaxDriveDocs == 1
\* number of /ingest triggers in one behaviour
MaxTriggers == 2
\* number of documents a failing bulk request can leave behind
MaxPartial == 1
\* number of ingestion runs that can exist at once
MaxRuns == 2

(* ------------------------- program constants -------------------------- *)

\* settings.chunk_size
ChunkSize == 300
\* settings.chunk_overlap
ChunkOverlap == 50
\* "dims" of the dense_vector mapping
EmbeddingDims == 384
\* knn_query["num_candidates"]
NumCandidates == 50
\* rank_config["rrf"]["rank_constant"]
RankConstant == 20
\* rank_config["rrf"]["window_size"]
WindowSize == 100
\* get_retriever's default k
DefaultK == 5

Runs == 1..MaxRuns
LocalFiles == 1..MaxLocalFiles
Terms == {"X", "Y"}

(* ------------------------------ helpers ------------------------------- *)

Min(a, b) == IF a < b THEN a ELSE b

\* f with key k set to v (a Python dict assignment d[k] = v)
Put(f, k, v) == [x \in DOMAIN f \cup {k} |-> IF x = k THEN v ELSE f[x]]

RECURSIVE Concat(_)
\* flattening of a sequence of sequences (list.extend over a loop)
Concat(ss) == IF ss = <<>> THEN <<>> ELSE Head(ss) \o Concat(Tail(ss))

(* ------------------------- the outside world -------------------------- *)

\* what a local file holds: one page of text about one term
LocalTopic(i) == IF i % 2 = 1 THEN "X" ELSE "Y"
LocalLen(i) == IF i % 2 = 1 THEN 400 ELSE 200
DriveTopic(i) == IF i % 2 = 1 THEN "Y" ELSE "X"
DriveLen(i) == IF i % 2 = 1 THEN 700 ELSE 0

\* os.path.join(LOCAL_DATA_PATH, pdf_file), as its path components
LocalPath(i) == <<"data", "doc" \o ToString(i) \o ".pdf">>

\* the Document PyPDFLoader(file_path).load() gives for a readable file
LocalDoc(i) ==
    [page_content |-> [topic |-> LocalTopic(i), off |-> 0, len |-> LocalLen(i)],
     metadata |-> [source |-> LocalPath(i)]]

\* the Document GoogleDriveLoader.load() gives for the i-th Drive file
DriveDoc(i) ==
    [page_content |-> [topic |-> DriveTopic(i), off |-> 0, len |-> DriveLen(i)],
     metadata |-> [source |-> <<"drive", "file" \o ToString(i)>>, file_id |-> i]]

\* the state of the sources when a run reads them
Worlds ==
    [dir : {"missing", "unlistable", "ok"},
     readable : SUBSET LocalFiles,
     creds : BOOLEAN,
     reachable : BOOLEAN,
     drive : 0..MaxDriveDocs]

\* worlds that differ only in what the run cannot see are one world
WorldSpace ==
    {w \in Worlds : /\ (w.dir # "ok" => w.readable = {})
                    /\ (~w.creds => w.reachable)
                    /\ (~(w.creds /\ w.reachable) => w.drive = 0)}

\* settings of app/config.py that get_es_client reads: is each one set
SettingsSpace ==
    [elastic_url : BOOLEAN, elastic_cloud_id : BOOLEAN, elastic_api_key : BOOLEAN]

\* the defaults of class Settings: a URL, no cloud id, no API key
DefaultSettings ==
    [elastic_url |-> TRUE, elastic_cloud_id |-> FALSE, elastic_api_key |-> FALSE]

\* a missing data directory and no Drive credentials
NoWorld == [dir |-> "missing", readable |-> {}, creds |-> FALSE,
            reachable |-> TRUE, drive |-> 0]

(* ---------------------------- ingestion.py ---------------------------- *)

\* get_es_client: "client" or the ValueError of the final else
GetEsClient(s) ==
    IF s.elastic_cloud_id /\ s.elastic_api_key THEN "client"
    ELSE IF s.elastic_url /\ s.elastic_api_key THEN "client"
    ELSE IF s.elastic_url THEN "client"
    ELSE "ValueError"

RECURSIVE LoadFiles(_, _)
\* the for loop of load_docs_from_local_folder over pdf_files i..MaxLocalFiles:
\* a file that fails to load is skipped, the others extend loaded_docs
LoadFiles(i, readable) ==
    IF i > MaxLocalFiles THEN <<>>
    ELSE (IF i \in readable THEN <<LocalDoc(i)>> ELSE <<>>)
         \o LoadFiles(i + 1, readable)

\* load_docs_from_local_folder without the os.path.exists test: a missing
\* directory reaches os.listdir
LoadDocsFromLocalFolderUnchecked(w) ==
    IF w.dir # "ok" THEN [docs |-> <<>>, error |-> "listdir"]
    ELSE [docs |-> LoadFiles(1, w.readable), error |-> "none"]

\* load_docs_from_local_folder: [docs, error]; os.listdir is outside any try
LoadDocsFromLocalFolder(w) ==
    IF w.dir = "missing" THEN [docs |-> <<>>, error |-> "none"]
    ELSE IF w.dir = "unlistable" THEN [docs |-> <<>>, error |-> "listdir"]
    ELSE [docs |-> LoadFiles(1, w.readable), error |-> "none"]

\* load_docs_from_gdrive: every failure of the loader is caught
LoadDocsFromGdrive(w) ==
    IF ~w.creds THEN <<>>
    ELSE IF ~w.reachable THEN <<>>
    ELSE [i \in 1..w.drive |-> DriveDoc(i)]

RECURSIVE Windows(_, _, _)
\* the windows of one text of length len from offset off on: at most
\* ChunkSize long, consecutive windows sharing ChunkOverlap characters
Windows(topic, off, len) ==
    IF len - off <= 0 THEN <<>>
    ELSE IF len - off <= ChunkSize
         THEN <<[topic |-> topic, off |-> off, len |-> len - off]>>
    ELSE <<[topic |-> topic, off |-> off, len |-> ChunkSize]>>
         \o Windows(topic, off + ChunkSize - ChunkOverlap, len)

\* text_splitter.split_documents on one document: each window keeps a copy
\* of the document's metadata
SplitDocument(d) ==
    LET ws == Windows(d.page_content.topic, 0, d.page_content.len)
    IN [j \in 1..Len(ws) |-> [page_content |-> ws[j], metadata |-> d.metadata]]

\* text_splitter.split_documents(docs): document by document, in order
SplitDocuments(docs) ==
    Concat([n \in 1..Len(docs) |-> SplitDocument(docs[n])])

\* os.path.basename
Basename(path) == path[Len(path)]

\* the Drive URL built from a file id
DriveUrl(id) == <<"https://docs.google.com/document/d/", ToString(id), "/">>

\* enumerate(chunks, 1)
ChunkIdAtFromOne(n) == n

\* the value enumerate() pairs with the n-th chunk (n counted from 1)
ChunkIdAt(n) == n - 1

\* the body of the enumerate loop of chunk_documents on the n-th chunk
Standardize(c, n) ==
    LET m1 == Put(c.metadata, "chunk_id", ChunkIdAt(n))
        m2 == IF "source" \in DOMAIN m1
              THEN Put(m1, "filename", Basename(m1["source"])) ELSE m1
        m3 == IF "file_id" \in DOMAIN m2
              THEN Put(m2, "drive_url", DriveUrl(m2["file_id"])) ELSE m2
    IN [page_content |-> c.page_content, metadata |-> m3]

\* chunk_documents
ChunkDocuments(docs) ==
    LET cs == SplitDocuments(docs)
    IN [n \in 1..Len(cs) |-> Standardize(cs[n], n)]

\* the "properties" of the mapping create_index_if_not_exists creates
IngestionMapping == {"text", "vector", "text_expansion", "metadata"}

\* HuggingFaceEmbeddings: a vector of the model's dimension for a text
Embed(topic) == [dims |-> EmbeddingDims, topic |-> topic]

\* the _source ElasticsearchStore.from_documents writes for a chunk: no
\* query_field or vector_query_field is passed, so the store's own names
StoredDoc(c) ==
    [text |-> c.page_content,
     vector |-> Embed(c.page_content.topic),
     metadata |-> c.metadata]

\* main without the test of all_docs
AfterLoadUnchecked(docs) == "chunk"

\* where main goes after all_docs = local_docs + gdrive_docs
AfterLoad(docs) == IF docs = <<>> THEN "return" ELSE "chunk"

\* create_index_if_not_exists without the early return
AfterExistsAlwaysCreate(exists) == "create"

\* where create_index_if_not_exists goes after client.indices.exists
AfterExists(exists) == IF exists THEN "return" ELSE "create"

(* ---------------------------- retriever.py ---------------------------- *)

\* the mode values a caller passes: the two documented ones and the
\* "elser" of ui.py's mode_map
Modes == {"hybrid", "elser_only", "elser"}

\* the k values a caller of get_retriever passes
KSpace == {1, DefaultK, NumCandidates, NumCandidates + 1}

\* elser_query
ElserQuery(q) ==
    [text_expansion |->
        [elser_embedding_field |-> [model_id |-> "elser", model_text |-> q]]]

\* knn_query with a candidate pool that grows with k
KnnQueryScaled(vec, k) ==
    [field |-> "vector_field", query_vector |-> vec, k |-> k,
     num_candidates |-> IF k < NumCandidates THEN NumCandidates ELSE k + 1]

\* knn_query, vec being self.embedding_model.embed_query(query)
KnnQuery(vec, k) ==
    [field |-> "vector_field", query_vector |-> vec, k |-> k,
     num_candidates |-> NumCandidates]

\* bm25_query
Bm25Query(q) == [match |-> [text_content |-> [query |-> q]]]

\* rank_config
RankConfig == [rrf |-> [rank_constant |-> RankConstant, window_size |-> WindowSize]]

\* the keyword arguments of the client.search of the elser_only branch
ElserOnlyRequest(index, q, k) ==
    [index |-> index, query |-> ElserQuery(q), size |-> k]

\* the keyword arguments of the client.search of the else branch
HybridRequest(index, q, vec, k) ==
    [index |-> index,
     knn |-> KnnQuery(vec, k),
     sub_searches |-> <<[query |-> Bm25Query(q)], [query |-> ElserQuery(q)]>>,
     rank |-> RankConfig,
     size |-> k]

\* the test with the mode name ui.py sends
IsElserOnlyUiName(mode) == mode = "elser"

\* the test taking every mode that names elser for the sparse one
IsElserOnlyLoose(mode) == mode \in {"elser_only", "elser"}

\* the test of the if: self.mode == "elser_only"
IsElserOnly(mode) == mode = "elser_only"

\* the for loop with docs.insert(0, ...) in place of docs.append(...): the
\* passages come out in the reverse of the order of the hits
ShapeHitsReversed(hits) ==
    IF \E n \in 1..Len(hits) :
          ~({"text_content", "metadata"} \subseteq DOMAIN hits[n]["_source"])
    THEN [docs |-> <<>>, error |-> "KeyError"]
    ELSE [docs |-> [n \in 1..Len(hits) |->
                      [page_content |-> hits[Len(hits) + 1 - n]["_source"]["text_content"],
                       metadata |-> hits[Len(hits) + 1 - n]["_source"]["metadata"]]],
          error |-> "none"]

\* the for loop over response["hits"]["hits"]: a KeyError when a hit's
\* _source lacks text_content or metadata, else one Document per hit, in
\* the order of the hits
ShapeHits(hits) ==
    IF \E n \in 1..Len(hits) :
          ~({"text_content", "metadata"} \subseteq DOMAIN hits[n]["_source"])
    THEN [docs |-> <<>>, error |-> "KeyError"]
    ELSE [docs |-> [n \in 1..Len(hits) |->
                      [page_content |-> hits[n]["_source"]["text_content"],
                       metadata |-> hits[n]["_source"]["metadata"]]],
          error |-> "none"]

\* a retriever without the except clause
OnExceptionPropagates(e) == [docs |-> <<>>, raised |-> e]

\* the except clause: what the caller gets when e was raised in the try
OnException(e) == [docs |-> <<>>, raised |-> "none"]

(* ------------------------- the storage backend ------------------------ *)

\* the one field a match or text_expansion clause names
ClauseField(c) == CHOOSE fld \in DOMAIN c : TRUE

\* does document d match a query clause
ClauseMatches(clause, d) ==
    IF "match" \in DOMAIN clause
    THEN LET fld == ClauseField(clause["match"])
         IN /\ fld \in DOMAIN d
            /\ d[fld].topic = clause["match"][fld].query
    ELSE LET fld == ClauseField(clause["text_expansion"])
         IN /\ fld \in DOMAIN d
            /\ d[fld] = clause["text_expansion"][fld].model_text

\* does document d match any component of a search request
RequestMatches(req, d) ==
    \/ "query" \in DOMAIN req /\ ClauseMatches(req["query"], d)
    \/ "knn" \in DOMAIN req /\ req["knn"].field \in DOMAIN d
    \/ /\ "sub_searches" \in DOMAIN req
       /\ \E n \in 1..Len(req["sub_searches"]) :
             ClauseMatches(req["sub_searches"][n].query, d)

\* the requests the backend rejects whatever its health: no such
\* collection, a kNN clause on a field the mapping lacks, k above
\* num_candidates
Rejected(req, exists, mapping) ==
    \/ ~exists
    \/ /\ "knn" \in DOMAIN req
       /\ \/ req["knn"].field \notin mapping
          \/ req["knn"].k > req["knn"].num_candidates

RECURSIVE Filter(_, _)
\* the documents of docs that match req, in the order of docs
Filter(req, docs) ==
    IF docs = <<>> THEN <<>>
    ELSE (IF RequestMatches(req, Head(docs)) THEN <<Head(docs)>> ELSE <<>>)
         \o Filter(req, Tail(docs))

Reverse(sq) == [n \in 1..Len(sq) |-> sq[Len(sq) + 1 - n]]

\* response["hits"]["hits"]: the searchable documents that match, ranked
\* one way or the other, cut to size
Hits(req, docs, order) ==
    LET m == Filter(req, docs)
        ranked == IF order = "asc" THEN m ELSE Reverse(m)
    IN [n \in 1..Min(Len(ranked), req.size) |-> [_source |-> ranked[n]]]

(* ------------------------------- state -------------------------------- *)

VARIABLES
    settings,      \* app.config.settings, fixed for the process
    indexExists,   \* the collection exists
    indexMapping,  \* the field names of its mapping
    indexDocs,     \* the _source of its documents, in write order
    visible,       \* how many of indexDocs a search sees (refresh)
    createCalls,   \* client.indices.create calls the backend received
    created,       \* how many of them created the collection
    world,         \* the local directory and the Drive folder, as the runs find them
    nTriggers,     \* /ingest requests received
    acks,          \* /ingest acknowledgements returned
    run,           \* per background task: the frame of main, see IdleRun
    retrieval      \* the last call of _get_relevant_documents, see NoRetrieval

collection == <<indexExists, indexMapping, indexDocs, visible>>
admin == <<createCalls, created>>
api == <<nTriggers, acks>>
env == <<settings, world>>
vars == <<env, collection, admin, api, run, retrieval>>

\* pc: position in main; start: the collection when main was entered;
\* local_docs .. chunks: main's locals; calls: the calls main has issued
\* after loading, in order; logged: what it logged; error: the exception
\* that left main
IdleRun ==
    [pc |-> "idle",
     start |-> [exists |-> FALSE, mapping |-> {}, ndocs |-> 0, visible |-> 0],
     local_docs |-> <<>>, gdrive_docs |-> <<>>, all_docs |-> <<>>, chunks |-> <<>>,
     calls |-> <<>>, logged |-> {}, error |-> "none"]

\* settings.index_name
IndexName == "rag-internship-demo"

\* what the collection looks like to a search
Snapshot ==
    [exists |-> indexExists, mapping |-> indexMapping,
     ndocs |-> Len(indexDocs), visible |-> visible]

\* state: "none" before any call, then "returned"; query, mode, k: the
\* call; embed_calls: calls of embed_query; requests: the client.search
\* calls issued, in order; hits: the hits of the response; docs: the list
\* returned; raised: the exception that reached the caller; cause: the
\* exception raised inside the try; ext: what the providers did; at: the
\* collection when it was searched
NoRetrieval ==
    [state |-> "none", query |-> "", mode |-> "", k |-> 0, ext |-> "",
     embed_calls |-> 0, requests |-> <<>>, hits |-> <<>>, docs |-> <<>>,
     raised |-> "none", cause |-> "none",
     at |-> [exists |-> FALSE, mapping |-> {}, ndocs |-> 0, visible |-> 0]]

InFlight(r) == run[r].pc \notin {"idle", "done"}

\* a collection provisioned outside this system with the fields the
\* retriever queries
ProvisionedMapping ==
    {"text_content", "vector_field", "elser_embedding_field", "metadata"}

ProvisionedDoc(t, withMeta) ==
    LET base == [text_content |-> [topic |-> t, off |-> 0, len |-> 100],
                 vector_field |-> Embed(t),
                 elser_embedding_field |-> t]
    IN IF withMeta
       THEN Put(base, "metadata", [filename |-> "seed" \o t \o ".pdf"])
       ELSE base

ProvisionedDocs ==
    {<<>>,
     <<ProvisionedDoc("X", TRUE), ProvisionedDoc("Y", TRUE)>>,
     <<ProvisionedDoc("X", TRUE), ProvisionedDoc("X", FALSE)>>}

InitCollection ==
    /\ \/ /\ indexExists = FALSE
          /\ indexMapping = {}
          /\ indexDocs = <<>>
       \/ /\ indexExists = TRUE
          /\ indexMapping = ProvisionedMapping
          /\ indexDocs \in ProvisionedDocs
    /\ visible = Len(indexDocs)

Init ==
    /\ settings \in SettingsSpace
    /\ world \in WorldSpace
    /\ InitCollection
    /\ createCalls = 0
    /\ created = 0
    /\ nTriggers = 0
    /\ acks = 0
    /\ run = [r \in Runs |-> IdleRun]
    /\ retrieval = NoRetrieval

(* --------------------------- api.py: /ingest -------------------------- *)

\* background_tasks.add_task(run_ingestion_pipeline) and the
\* acknowledgement; task r enters main with fresh locals
StartRun(r) ==
    /\ nTriggers < MaxTriggers
    /\ ~InFlight(r)
    /\ nTriggers' = nTriggers + 1
    /\ acks' = acks + 1
    /\ run' = [run EXCEPT ![r] = [IdleRun EXCEPT !.pc = "load_local", !.start = Snapshot]]
    /\ UNCHANGED <<env, collection, admin, retrieval>>

\* /ingest when the operator lets no two runs overlap
IngestDocuments(r) ==
    /\ \A q \in Runs : ~InFlight(q)
    /\ r = 1
    /\ StartRun(r)

(* ------------------------- ingestion.py: main ------------------------- *)

\* main is left, by return (e = "none") or by an exception e
Exit(f, e) == [f EXCEPT !.pc = "done", !.error = e]

Called(f, c) == [f EXCEPT !.calls = Append(@, c)]
Logged(f, l) == [f EXCEPT !.logged = @ \cup {l}]
Goto(f, l) == [f EXCEPT !.pc = l]

\* what load_docs_from_local_folder logs
LocalLog(w) ==
    (IF w.dir = "missing" THEN {"local_dir_missing"} ELSE {})
    \cup (IF w.dir = "ok" /\ w.readable # LocalFiles THEN {"file_failed"} ELSE {})

\* what load_docs_from_gdrive logs
GdriveLog(w) ==
    IF ~w.creds THEN {"gdrive_no_credentials"}
    ELSE IF ~w.reachable THEN {"gdrive_failed"}
    ELSE {}

\* local_docs = load_docs_from_local_folder()
LoadLocal(r) ==
    /\ run[r].pc = "load_local"
    /\ LET f == run[r]
           res == LoadDocsFromLocalFolder(world)
           g == [f EXCEPT !.local_docs = res.docs, !.logged = @ \cup LocalLog(world)]
       IN run' = [run EXCEPT ![r] = IF res.error = "none" THEN Goto(g, "load_gdrive")
                                    ELSE Exit(g, res.error)]
    /\ UNCHANGED <<env, collection, admin, api, retrieval>>

\* gdrive_docs = load_docs_from_gdrive()
LoadGdrive(r) ==
    /\ run[r].pc = "load_gdrive"
    /\ LET f == run[r]
       IN run' = [run EXCEPT ![r] =
                    [f EXCEPT !.gdrive_docs = LoadDocsFromGdrive(world),
                              !.logged = @ \cup GdriveLog(world),
                              !.pc = "concat"]]
    /\ UNCHANGED <<env, collection, admin, api, retrieval>>

\* all_docs = local_docs + gdrive_docs; if not all_docs: return
CheckAllDocs(r) ==
    /\ run[r].pc = "concat"
    /\ LET f == run[r]
           docs == f.local_docs \o f.gdrive_docs
           g == [f EXCEPT !.all_docs = docs]
       IN run' = [run EXCEPT ![r] =
                    IF AfterLoad(docs) = "return"
                    THEN Exit(Logged(g, "no_documents"), "none")
                    ELSE Goto(g, "chunk")]
    /\ UNCHANGED <<env, collection, admin, api, retrieval>>

\* chunks = chunk_documents(all_docs); the splitter rejects a bad
\* chunk_size / chunk_overlap pair with a ValueError
Chunk(r) ==
    /\ run[r].pc = "chunk"
    /\ LET f == Called(run[r], "chunk_documents")
       IN \/ run' = [run EXCEPT ![r] =
                       Goto([f EXCEPT !.chunks = ChunkDocuments(f.all_docs)], "embeddings")]
          \/ run' = [run EXCEPT ![r] = Exit(f, "chunking")]
    /\ UNCHANGED <<env, collection, admin, api, retrieval>>

\* embeddings = HuggingFaceEmbeddings(model_name=...)
InitEmbeddings(r) ==
    /\ run[r].pc = "embeddings"
    /\ LET f == Called(run[r], "HuggingFaceEmbeddings")
       IN \/ run' = [run EXCEPT ![r] = Goto(f, "connect")]
          \/ run' = [run EXCEPT ![r] = Exit(f, "embedding_init")]
    /\ UNCHANGED <<env, collection, admin, api, retrieval>>

\* es_client = get_es_client()
Connect(r) ==
    /\ run[r].pc = "connect"
    /\ LET f == Called(run[r], "get_es_client")
       IN run' = [run EXCEPT ![r] = IF GetEsClient(settings) = "client"
                                    THEN Goto(f, "exists")
                                    ELSE Exit(f, "no_connection_settings")]
    /\ UNCHANGED <<env, collection, admin, api, retrieval>>

\* create_index_if_not_exists: client.indices.exists(index=index_name)
IndexExists(r) ==
    /\ run[r].pc = "exists"
    /\ LET f == Called(run[r], "indices.exists")
       IN \/ run' = [run EXCEPT ![r] =
                       IF AfterExists(indexExists) = "return"
                       THEN Goto(Logged(f, "index_exists"), "write")
                       ELSE Goto(f, "create")]
          \/ run' = [run EXCEPT ![r] = Exit(f, "indices.exists")]
    /\ UNCHANGED <<env, collection, admin, api, retrieval>>

\* create_index_if_not_exists: client.indices.create(index, mappings); the
\* backend rejects the creation of a collection that exists
IndexCreate(r) ==
    /\ run[r].pc = "create"
    /\ LET f == Called(run[r], "indices.create")
       IN \/ /\ ~indexExists
             /\ indexExists' = TRUE
             /\ indexMapping' = IngestionMapping
             /\ created' = created + 1
             /\ UNCHANGED <<indexDocs, visible>>
             /\ run' = [run EXCEPT ![r] = Goto(Logged(f, "index_created"), "write")]
          \/ /\ UNCHANGED <<collection, created>>
             /\ run' = [run EXCEPT ![r] = Exit(f, "indices.create")]
    /\ createCalls' = createCalls + 1
    /\ UNCHANGED <<env, api, retrieval>>

\* the fields a write of from_documents adds to the mapping (dynamic mapping)
WrittenFields == {"text", "vector", "metadata"}

\* ElasticsearchStore.from_documents(chunks, embeddings, ...): one bulk
\* request; when it fails, the documents the backend took before the
\* failure stay
BulkWrite(r) ==
    /\ run[r].pc = "write"
    /\ LET f == Called(run[r], "bulk")
           docs == [n \in 1..Len(f.chunks) |-> StoredDoc(f.chunks[n])]
       IN \/ /\ indexExists
             /\ indexDocs' = indexDocs \o docs
             /\ indexMapping' = indexMapping \cup WrittenFields
             /\ UNCHANGED <<indexExists, visible>>
             /\ run' = [run EXCEPT ![r] = Goto(f, "refresh")]
          \/ /\ \E n \in 0..Min(Len(docs) - 1, MaxPartial) :
                   /\ n > 0 => indexExists
                   /\ indexDocs' = indexDocs \o SubSeq(docs, 1, n)
                   /\ indexMapping' = IF n > 0 THEN indexMapping \cup WrittenFields
                                      ELSE indexMapping
             /\ UNCHANGED <<indexExists, visible>>
             /\ run' = [run EXCEPT ![r] = Exit(f, "bulk")]
    /\ UNCHANGED <<env, admin, api, retrieval>>

\* db.client.indices.refresh(index=index_name), then the completion log
Refresh(r) ==
    /\ run[r].pc = "refresh"
    /\ LET f == Called(run[r], "indices.refresh")
       IN \/ /\ visible' = Len(indexDocs)
             /\ run' = [run EXCEPT ![r] = Exit(Logged(f, "completed"), "none")]
          \/ /\ UNCHANGED visible
             /\ run' = [run EXCEPT ![r] = Exit(f, "indices.refresh")]
    /\ UNCHANGED <<env, indexExists, indexMapping, indexDocs, admin, api, retrieval>>

Main(r) ==
    \/ LoadLocal(r)
    \/ LoadGdrive(r)
    \/ CheckAllDocs(r)
    \/ Chunk(r)
    \/ InitEmbeddings(r)
    \/ Connect(r)
    \/ IndexExists(r)
    \/ IndexCreate(r)
    \/ BulkWrite(r)
    \/ Refresh(r)

(* --------------- retriever.py: _get_relevant_documents ---------------- *)

\* the part of the try after client.search was called with req: the
\* backend fails or rejects the request, or the hits are shaped
AfterSearch(base, req, backendOk, order) ==
    IF ~backendOk \/ Rejected(req, indexExists, indexMapping)
    THEN [base EXCEPT !.requests = <<req>>, !.cause = "search",
                      !.docs = OnException("search").docs,
                      !.raised = OnException("search").raised]
    ELSE LET hits == Hits(req, SubSeq(indexDocs, 1, visible), order)
             shaped == ShapeHits(hits)
         IN IF shaped.error # "none"
            THEN [base EXCEPT !.requests = <<req>>, !.hits = hits,
                              !.cause = shaped.error,
                              !.docs = OnException(shaped.error).docs,
                              !.raised = OnException(shaped.error).raised]
            ELSE [base EXCEPT !.requests = <<req>>, !.hits = hits,
                              !.docs = shaped.docs]

\* what the embedding provider and the backend do during one call:
\* embed_query raises, the search raises (backend unreachable, model not
\* deployed, ...), or the backend answers, ranking one way or the other
Externals == {"embed_query_raises", "search_raises", "ranked_asc", "ranked_desc"}

\* _get_relevant_documents of a retriever built with (mode, k), on query q,
\* when the providers behave as ext
GetRelevantDocuments(q, mode, k, ext) ==
    LET embedOk == ext # "embed_query_raises"
        backendOk == ext # "search_raises"
        order == IF ext = "ranked_desc" THEN "desc" ELSE "asc"
        base == [NoRetrieval EXCEPT !.state = "returned", !.query = q,
                                    !.mode = mode, !.k = k, !.ext = ext,
                                    !.at = Snapshot]
    IN IF IsElserOnly(mode)
       THEN AfterSearch(base, ElserOnlyRequest(IndexName, q, k), backendOk, order)
       ELSE IF ~embedOk
            THEN [base EXCEPT !.embed_calls = 1, !.cause = "embed_query",
                              !.docs = OnException("embed_query").docs,
                              !.raised = OnException("embed_query").raised]
            ELSE AfterSearch([base EXCEPT !.embed_calls = 1],
                             HybridRequest(IndexName, q, Embed(q), k),
                             backendOk, order)

\* one call of the retriever
Retrieve(q, mode, k) ==
    /\ \E ext \in Externals : retrieval' = GetRelevantDocuments(q, mode, k, ext)
    /\ UNCHANGED <<env, collection, admin, api, run>>

\* a retriever from get_retriever(mode, k), invoked on a query
RetrieveAny == \E q \in Terms, mode \in Modes, k \in KSpace : Retrieve(q, mode, k)

(* --------------------------- api.py: /query --------------------------- *)

\* query: get_retriever(mode=request.retrieval_mode), so k is the default
Query == \E q \in Terms, mode \in Modes : Retrieve(q, mode, DefaultK)

NextIngestion ==
    \/ \E r \in Runs : IngestDocuments(r)
    \/ \E r \in Runs : Main(r)

SpecIngestion == Init /\ [][NextIngestion]_vars

\* the documents one complete run writes when the sources are w
IngestedDocs(w) ==
    LET cs == ChunkDocuments(LoadDocsFromLocalFolder(w).docs \o LoadDocsFromGdrive(w))
    IN [n \in 1..Len(cs) |-> StoredDoc(cs[n])]

\* the retriever alone, against a collection that does not exist, one
\* provisioned outside, or one a complete ingestion run created and filled
InitRetrieval ==
    /\ settings = DefaultSettings
    /\ \/ /\ world = NoWorld
          /\ InitCollection
       \/ /\ world \in WorldSpace
          /\ indexExists = TRUE
          /\ indexMapping = IngestionMapping
          /\ indexDocs = IngestedDocs(world)
          /\ visible = Len(indexDocs)
    /\ createCalls = 0
    /\ created = 0
    /\ nTriggers = 0
    /\ acks = 0
    /\ run = [r \in Runs |-> IdleRun]
    /\ retrieval = NoRetrieval

SpecRetrieval == InitRetrieval /\ [][RetrieveAny]_vars

\* the service: /ingest and /query
Next ==
    \/ NextIngestion
    \/ Query

\* the service under the default settings
InitService ==
    /\ Init
    /\ settings = DefaultSettings

Spec == InitService /\ [][Next]_vars

(* ------------------------------ claims -------------------------------- *)

Returned == retrieval.state = "returned"

\* C1: whenever the embedding call, the search call or the reading of a hit
\* raises, _get_relevant_documents returns the empty list and no exception
\* reaches the caller
C1_ErrorsGiveEmptyList ==
    Returned =>
        /\ retrieval.raised = "none"
        /\ (retrieval.cause # "none" => retrieval.docs = <<>>)

\* C1 witness: a hit without metadata made the result shaping raise
C1_Witness ==
    /\ Returned
    /\ retrieval.cause = "KeyError"
    /\ Len(retrieval.hits) > 0

\* the request carries the sparse text-expansion clause as its only query
\* component, and size k
SparseOnly(req, k) ==
    /\ DOMAIN req = {"index", "query", "size"}
    /\ DOMAIN req["query"] = {"text_expansion"}
    /\ DOMAIN req["query"]["text_expansion"] = {"elser_embedding_field"}
    /\ req["size"] = k

\* C2: in mode elser_only a call issues exactly one search request, with
\* the sparse clause only (no kNN clause, no lexical match, no fusion
\* directive) and size k, and never calls the embedding provider
C2_ElserOnlyShape ==
    (Returned /\ retrieval.mode = "elser_only") =>
        /\ Len(retrieval.requests) = 1
        /\ SparseOnly(retrieval.requests[1], retrieval.k)
        /\ retrieval.embed_calls = 0

\* C2 witness: an elser_only call that returned passages
C2_Witness ==
    /\ Returned
    /\ retrieval.mode = "elser_only"
    /\ Len(retrieval.docs) > 0

\* the request carries the dense kNN clause on vector_field built from the
\* embedding of q, the lexical match on text_content, the sparse clause,
\* the RRF directive with rank_constant 20 and window_size 100, and size k
AllThree(req, q, k) ==
    /\ DOMAIN req = {"index", "knn", "sub_searches", "rank", "size"}
    /\ req["knn"].field = "vector_field"
    /\ req["knn"].query_vector = Embed(q)
    /\ Len(req["sub_searches"]) = 2
    /\ \E n \in 1..2 : /\ DOMAIN req["sub_searches"][n].query = {"match"}
                       /\ DOMAIN req["sub_searches"][n].query["match"] = {"text_content"}
    /\ \E n \in 1..2 : DOMAIN req["sub_searches"][n].query = {"text_expansion"}
    /\ req["rank"] = [rrf |-> [rank_constant |-> 20, window_size |-> 100]]
    /\ req["size"] = k

HybridRequestIssued ==
    /\ Returned
    /\ Len(retrieval.requests) = 1
    /\ "knn" \in DOMAIN retrieval.requests[1]

\* C4 as stated: the kNN candidate pool is 50 whatever k is, and larger
\* than the requested k
C4_PoolLargerThanK ==
    HybridRequestIssued =>
        /\ retrieval.requests[1]["knn"].num_candidates = 50
        /\ retrieval.requests[1]["knn"].num_candidates > retrieval.k

\* C4 amended: the kNN candidate pool is 50 whatever k is; it is larger
\* than the requested k when k is below 50 and not otherwise
C4_PoolIsFifty ==
    HybridRequestIssued =>
        /\ retrieval.requests[1]["knn"].k = retrieval.k
        /\ retrieval.requests[1]["knn"].num_candidates = 50
        /\ (retrieval.requests[1]["knn"].num_candidates > retrieval.k
              <=> retrieval.k < 50)

\* C4 witness: a hybrid request for more passages than the pool holds
C4_Witness ==
    /\ HybridRequestIssued
    /\ retrieval.k > 50

\* the searchable documents an ingestion run wrote whose text mentions q
IngestedMentioning(q) ==
    {n \in 1..visible : /\ "text" \in DOMAIN indexDocs[n]
                        /\ indexDocs[n]["text"].topic = q}

\* C5: the fields ingestion creates and fills are the fields the retriever
\* queries and reads: after a completed ingestion run, a hybrid query for a
\* term, served by healthy providers, returns every ingested chunk that
\* mentions the term (at most k of them exist), with a non-empty filename
C5_IngestedChunkRetrieved ==
    ( /\ \E r \in Runs : "completed" \in run[r].logged
      /\ Returned
      /\ retrieval.mode = "hybrid"
      /\ retrieval.ext \in {"ranked_asc", "ranked_desc"}
      /\ retrieval.at = Snapshot
      /\ visible <= retrieval.k )
    => \A n \in IngestedMentioning(retrieval.query) :
          \E m \in 1..Len(retrieval.docs) :
             /\ retrieval.docs[m].page_content = indexDocs[n]["text"]
             /\ "filename" \in DOMAIN retrieval.docs[m].metadata
             /\ retrieval.docs[m].metadata["filename"] # ""

(* claims about the ingestion run *)

RECURSIVE ReadableDocs(_, _)
\* the documents of the readable local files from file i on, in
\* directory order
ReadableDocs(i, w) ==
    IF i > MaxLocalFiles THEN <<>>
    ELSE IF w.dir = "ok" /\ i \in w.readable
         THEN <<LocalDoc(i)>> \o ReadableDocs(i + 1, w)
         ELSE ReadableDocs(i + 1, w)

\* every item of the two sources that loads successfully: the readable
\* local files, then the Drive documents when Drive can be read
Loadable(w) ==
    ReadableDocs(1, w)
    \o (IF w.creds /\ w.reachable THEN [i \in 1..w.drive |-> DriveDoc(i)] ELSE <<>>)

\* the run has left the load step, by going on or by leaving main
PastLoad(f) == f.pc \notin {"idle", "load_local", "load_gdrive"}

\* C6: a failure of one source or of one local file is skipped and never
\* keeps the rest from being loaded: once the load step is over, no error
\* has left it and the documents loaded are all those that can be loaded
C6_LoadFailuresSkipped ==
    \A r \in Runs :
        PastLoad(run[r]) =>
            /\ run[r].error # "listdir"
            /\ run[r].local_docs \o run[r].gdrive_docs = Loadable(world)

\* the run formed all_docs and found it empty
EmptyUnion(f) ==
    /\ f.pc \notin {"idle", "load_local", "load_gdrive", "concat"}
    /\ f.error # "listdir"
    /\ f.local_docs \o f.gdrive_docs = <<>>

\* C7: when the union of the loaded documents is empty the run stops
\* without error before any later step: none of chunking, embedding
\* initialisation, connection, existence check, creation, write or refresh
\* is called, and the collection is as it was when the run started
C7_EmptyUnionStopsEarly ==
    \A r \in Runs :
        EmptyUnion(run[r]) =>
            /\ run[r].pc = "done"
            /\ run[r].error = "none"
            /\ run[r].calls = <<>>
            /\ "no_documents" \in run[r].logged
            /\ Snapshot = run[r].start

\* C7 witness: the directory is there, none of its files loads, Drive gives
\* nothing, and the run has stopped
C7_Witness ==
    \E r \in Runs :
        /\ EmptyUnion(run[r])
        /\ world.dir = "ok"
        /\ "file_failed" \in run[r].logged

\* where chunk c comes from: the position of its document in docs, then
\* its offset in that document
Origin(c, docs) ==
    <<CHOOSE n \in 1..Len(docs) : docs[n].metadata.source = c.metadata["source"],
      c.page_content.off>>

Before(a, b) == a[1] < b[1] \/ (a[1] = b[1] /\ a[2] < b[2])

\* C8: the chunk_id values of a run start at 0 and grow by 1 along the
\* chunks, which follow the concatenated document list (local documents,
\* then Drive documents) in order; so they are unique and strictly
\* increasing in processing order
C8_ChunkIdsSequential ==
    \A r \in Runs :
        LET cs == run[r].chunks
            docs == run[r].local_docs \o run[r].gdrive_docs
        IN /\ \A n \in 1..Len(cs) : cs[n].metadata["chunk_id"] = n - 1
           /\ \A i, j \in 1..Len(cs) :
                 i < j => /\ cs[i].metadata["chunk_id"] < cs[j].metadata["chunk_id"]
                          /\ Before(Origin(cs[i], docs), Origin(cs[j], docs))

\* C8 witness: a run chunked a local document of two chunks and a Drive
\* document after it
C8_Witness ==
    \E r \in Runs :
        /\ Len(run[r].chunks) >= 3
        /\ Len(run[r].local_docs) >= 1
        /\ Len(run[r].gdrive_docs) >= 1

\* C9: index preparation is idempotent: when the existence check finds the
\* collection, the check is the only call (no create call), no error is
\* raised and the collection is left as it is; and however many runs
\* prepare the index one after another, the collection is created at most
\* once
C9_IndexPreparationIdempotent ==
    [][ /\ created' <= 1
        /\ \A r \in Runs :
              ( /\ run[r].pc = "exists"
                /\ indexExists
                /\ run'[r] # run[r]
                /\ run'[r].error # "indices.exists" )
              => /\ run'[r].pc = "write"
                 /\ run'[r].error = "none"
                 /\ run'[r].calls = Append(run[r].calls, "indices.exists")
                 /\ createCalls' = createCalls
                 /\ collection' = collection ]_vars

\* C9 witness: a first run created the collection and a second one found
\* it and skipped the creation
C9_Witness ==
    /\ created = 1
    /\ createCalls = 1
    /\ nTriggers = 2
    /\ \E r \in Runs : /\ "index_exists" \in run[r].logged
                       /\ run[r].pc = "refresh"

\* the exceptions that leave main after the load step, each with the call
\* that raises it
CallOf(e) ==
    CASE e = "chunking" -> "chunk_documents"
      [] e = "embedding_init" -> "HuggingFaceEmbeddings"
      [] e = "no_connection_settings" -> "get_es_client"
      [] e = "indices.exists" -> "indices.exists"
      [] e = "indices.create" -> "indices.create"
      [] e = "bulk" -> "bulk"
      [] e = "indices.refresh" -> "indices.refresh"

RunDocs(f) == [n \in 1..Len(f.chunks) |-> StoredDoc(f.chunks[n])]

\* the last two calls of a run are the bulk write, then the refresh
WriteThenRefresh(f) ==
    /\ Len(f.calls) >= 2
    /\ f.calls[Len(f.calls) - 1] = "bulk"
    /\ f.calls[Len(f.calls)] = "indices.refresh"

\* C11: a run reports completion only after its bulk write of all chunks
\* succeeded and a refresh was issued after it, so that all the documents
\* of the run are in the collection and searchable at completion; a run
\* whose bulk write failed has issued no refresh, is not reported as
\* completed, and has left none of its documents in the collection
C11_CompletionOnlyAfterWholeWrite ==
    \A r \in Runs :
        LET f == run[r]
        IN /\ "completed" \in f.logged =>
                 /\ f.error = "none"
                 /\ WriteThenRefresh(f)
                 /\ Len(indexDocs) = f.start.ndocs + Len(f.chunks)
                 /\ SubSeq(indexDocs, f.start.ndocs + 1, Len(indexDocs)) = RunDocs(f)
                 /\ visible = Len(indexDocs)
           /\ f.error = "bulk" =>
                 /\ "indices.refresh" \notin {f.calls[n] : n \in 1..Len(f.calls)}
                 /\ "completed" \notin f.logged
                 /\ Len(indexDocs) = f.start.ndocs

\* the search call answered and every hit was read: nothing was raised
\* inside the try
SearchSucceeded ==
    /\ Returned
    /\ Len(retrieval.requests) = 1
    /\ retrieval.cause = "none"

\* C12: on a successful search the result holds exactly one passage per hit
\* of the response, in the order of the hits, the text of each being the
\* hit's stored text_content and its metadata the hit's stored metadata
\* map unchanged; the result is never longer than the requested k
C12_OnePassagePerHitInOrder ==
    SearchSucceeded =>
        /\ Len(retrieval.docs) = Len(retrieval.hits)
        /\ \A n \in 1..Len(retrieval.hits) :
              /\ retrieval.docs[n].page_content
                    = retrieval.hits[n]["_source"]["text_content"]
              /\ retrieval.docs[n].metadata = retrieval.hits[n]["_source"]["metadata"]
        /\ Len(retrieval.docs) <= retrieval.k

\* C12 witness: the backend ranked the later document first and the result
\* holds two different passages in that order, each with its filename
C12_Witness ==
    /\ SearchSucceeded
    /\ retrieval.ext = "ranked_desc"
    /\ Len(retrieval.docs) = 2
    /\ retrieval.docs[1] # retrieval.docs[2]
    /\ retrieval.docs[1].page_content = indexDocs[2]["text_content"]
    /\ retrieval.docs[1].metadata = indexDocs[2]["metadata"]
    /\ "filename" \in DOMAIN retrieval.docs[1].metadata

(* claims about overlapping runs *)

\* /ingest as api.py has it: the task is added whatever the other tasks
\* are doing; it takes the first task slot that is free
IngestDocumentsOverlapping(r) ==
    /\ \A q \in 1..(r - 1) : InFlight(q)
    /\ StartRun(r)

NextOverlap ==
    \/ \E r \in Runs : IngestDocumentsOverlapping(r)
    \/ \E r \in Runs : Main(r)

\* the default settings and no collection yet
InitOverlap ==
    /\ InitService
    /\ indexExists = FALSE

SpecOverlap == InitOverlap /\ [][NextOverlap]_vars

\* C13: every /ingest trigger is acknowledged without waiting for its run,
\* and whatever the interleaving of two overlapping runs that start with
\* no collection, the collection is created once and no create call is
\* issued after it: a run never issues a create call that finds the
\* collection the other run created, so none is failed by the rejection of
\* such a call
C13_CreatedOnceUnderOverlap ==
    [][ /\ acks' = nTriggers'
        /\ created' <= 1
        /\ \A r \in Runs :
              (run[r].pc = "create" /\ run'[r] # run[r])
              => ~indexExists ]_vars

====
